---- MODULE Spec2Model ----
(***************************************************************************)
(* Model of the directory crawler of scripts/rp_cli.py: _fetch_page,       *)
(* _parse_links and crawl_directory (a level-synchronous BFS over HTTP     *)
(* directory listings, fetched through a ThreadPoolExecutor).              *)
(*                                                                         *)
(* Python strings are sequences of one-character strings, so that the      *)
(* string operations of the code (startswith, endswith, strip, rstrip,     *)
(* split, urljoin, the comparison used by sort) are computed and not       *)
(* assumed.  A page body is the sequence of (href, text) pairs that        *)
(* LINK_RE.finditer yields on it.                                          *)
(***************************************************************************)
EXTENDS Integers, Sequences, FiniteSets, TLC

(***************************************************************************)
(* Bounds of the model.                                                    *)
(***************************************************************************)
MaxDepthArg == 3      \* max_depth is drawn from 0..MaxDepthArg
MaxWorkersArg == 2    \* workers is drawn from 1..MaxWorkersArg
MaxFailures == 1      \* at most this many URLs of a site fail
MaxAnchors == 3       \* a page parsed on its own has at most this many anchors

\* the default of crawl_directory's workers, which _run_crawl leaves unset
DefaultWorkers == 20

(***************************************************************************)
(* Strings.                                                                *)
(***************************************************************************)
Letters == {"a", "b", "c", "f", "g", "h", "m", "o", "p", "r", "t", "x", "y",
            "A", "C", "N"}

\* the characters accepted in a URL scheme (urllib.parse.scheme_chars)
SchemeChars == Letters \cup {".", "+", "-"}

\* code point of a character: the order used by the comparison of str
Ord(c) ==
  CASE c = " " -> 32 [] c = "#" -> 35 [] c = "+" -> 43 [] c = "-" -> 45
    [] c = "." -> 46 [] c = "/" -> 47 [] c = ":" -> 58 [] c = "=" -> 61
    [] c = "?" -> 63 [] c = "A" -> 65 [] c = "C" -> 67 [] c = "N" -> 78
    [] c = "a" -> 97 [] c = "b" -> 98 [] c = "c" -> 99 [] c = "f" -> 102
    [] c = "g" -> 103 [] c = "h" -> 104 [] c = "m" -> 109 [] c = "o" -> 111
    [] c = "p" -> 112 [] c = "r" -> 114 [] c = "t" -> 116 [] c = "x" -> 120
    [] c = "y" -> 121

\* s.startswith(p)
StartsWith(s, p) ==
  /\ Len(p) <= Len(s)
  /\ SubSeq(s, 1, Len(p)) = p

\* s.endswith(p)
EndsWith(s, p) ==
  /\ Len(p) <= Len(s)
  /\ SubSeq(s, Len(s) - Len(p) + 1, Len(s)) = p

\* p in s
Contains(s, p) ==
  \E i \in 1..(Len(s) - Len(p) + 1) : SubSeq(s, i, i + Len(p) - 1) = p

\* s.rstrip(c) for a single character c
RECURSIVE RStrip(_, _)
RStrip(s, c) ==
  IF s # <<>> /\ s[Len(s)] = c THEN RStrip(SubSeq(s, 1, Len(s) - 1), c) ELSE s

\* s.lstrip(c) for a single character c
RECURSIVE LStrip(_, _)
LStrip(s, c) ==
  IF s # <<>> /\ s[1] = c THEN LStrip(Tail(s), c) ELSE s

\* s.strip(): the whitespace of the model's alphabet is the blank
Strip(s) == RStrip(LStrip(s, " "), " ")

\* s.split(c): the segments of s between the occurrences of c
RECURSIVE Split(_, _)
Split(s, c) ==
  IF \A i \in 1..Len(s) : s[i] # c
    THEN <<s>>
    ELSE LET k == CHOOSE i \in 1..Len(s) :
                     s[i] = c /\ \A j \in 1..(i - 1) : s[j] # c
         IN <<SubSeq(s, 1, k - 1)>> \o Split(SubSeq(s, k + 1, Len(s)), c)

\* c.join(parts)
RECURSIVE Join(_, _)
Join(parts, c) ==
  IF parts = <<>> THEN <<>>
  ELSE IF Len(parts) = 1 THEN parts[1]
  ELSE parts[1] \o <<c>> \o Join(Tail(parts), c)

\* a < b for str: lexicographic by code point, a proper prefix is smaller
RECURSIVE StrLess(_, _)
StrLess(a, b) ==
  IF b = <<>> THEN FALSE
  ELSE IF a = <<>> THEN TRUE
  ELSE IF a[1] = b[1] THEN StrLess(Tail(a), Tail(b))
  ELSE Ord(a[1]) < Ord(b[1])

(***************************************************************************)
(* urllib.parse.urljoin, as _parse_links uses it: the base is the URL of   *)
(* the fetched page, the second argument an href that passed the filters.  *)
(* The hrefs of the model carry no params, query or fragment.              *)
(***************************************************************************)
\* index of the first ":" of u, 0 when there is none
FirstColon(u) ==
  IF \E i \in 1..Len(u) : u[i] = ":"
    THEN CHOOSE i \in 1..Len(u) : u[i] = ":" /\ \A j \in 1..(i - 1) : u[j] # ":"
    ELSE 0

\* urlsplit's scheme: the text before the first ":" when it is a scheme name
SchemeOf(u) ==
  LET i == FirstColon(u)
  IN IF /\ i > 1
        /\ u[1] \in Letters
        /\ \A j \in 1..(i - 1) : u[j] \in SchemeChars
       THEN SubSeq(u, 1, i - 1)
       ELSE <<>>

\* u without its scheme and the colon after it
AfterScheme(u) ==
  IF SchemeOf(u) = <<>> THEN u ELSE SubSeq(u, FirstColon(u) + 1, Len(u))

\* urlsplit's netloc: between a leading "//" and the next "/"
NetlocOf(u) ==
  LET r == AfterScheme(u)
  IN IF StartsWith(r, <<"/", "/">>)
       THEN Split(SubSeq(r, 3, Len(r)), "/")[1]
       ELSE <<>>

\* urlsplit's path
PathOf(u) ==
  LET r == AfterScheme(u)
  IN IF StartsWith(r, <<"/", "/">>)
       THEN SubSeq(r, 3 + Len(NetlocOf(u)), Len(r))
       ELSE r

\* segments[1:-1] = filter(None, segments[1:-1])
DropInnerEmpty(segments) ==
  IF Len(segments) <= 2 THEN segments
  ELSE <<segments[1]>>
         \o SelectSeq(SubSeq(segments, 2, Len(segments) - 1),
                      LAMBDA seg : seg # <<>>)
         \o <<segments[Len(segments)]>>

\* the loop of urljoin that removes the dot segments
RECURSIVE ResolveDots(_, _)
ResolveDots(segments, resolved) ==
  IF segments = <<>> THEN resolved
  ELSE LET seg == Head(segments)
       IN IF seg = <<".", ".">>
            THEN ResolveDots(Tail(segments),
                   IF resolved = <<>> THEN <<>>
                   ELSE SubSeq(resolved, 1, Len(resolved) - 1))
          ELSE IF seg = <<".">>
            THEN ResolveDots(Tail(segments), resolved)
          ELSE ResolveDots(Tail(segments), Append(resolved, seg))

\* urllib.parse.urljoin(base, url)
urljoin(base, url) ==
  LET bscheme == SchemeOf(base)
      scheme == IF SchemeOf(url) = <<>> THEN bscheme ELSE SchemeOf(url)
      path == PathOf(url)
      bparts == Split(PathOf(base), "/")
      base_parts == IF bparts[Len(bparts)] # <<>>
                      THEN SubSeq(bparts, 1, Len(bparts) - 1)
                      ELSE bparts
      segments == IF StartsWith(path, <<"/">>)
                    THEN Split(path, "/")
                    ELSE DropInnerEmpty(base_parts \o Split(path, "/"))
      last == segments[Len(segments)]
      resolved == ResolveDots(segments, <<>>)
      resolved_path == IF last = <<".">> \/ last = <<".", ".">>
                         THEN Append(resolved, <<>>)
                         ELSE resolved
      joined == Join(resolved_path, "/")
      \* urlunsplit puts a "/" between a netloc and a path without one
      rooted == IF joined = <<>> \/ StartsWith(joined, <<"/">>)
                  THEN joined
                  ELSE <<"/">> \o joined
  IN IF base = <<>> THEN url
     ELSE IF url = <<>> THEN base
     ELSE IF scheme # bscheme \/ scheme # <<"h", "t", "t", "p">> THEN url
     ELSE IF NetlocOf(url) # <<>> THEN url
     ELSE IF path = <<>> THEN base
     ELSE scheme \o <<":", "/", "/">> \o NetlocOf(base)
            \o (IF rooted = <<>> THEN <<"/">> ELSE rooted)

(***************************************************************************)
(* _parse_links.  html is the sequence of the matches of LINK_RE on the    *)
(* page, each a record [href, text] (groups 1 and 2 of the match).         *)
(***************************************************************************)
\* (variant) the filters without the test for the parent directory
Discarded_parent(href) ==
  \/ href = <<>>
  \/ StartsWith(href, <<"?">>)
  \/ StartsWith(href, <<"#">>)
  \/ StartsWith(href, <<"/">>)
  \/ Contains(href, <<":", "/", "/">>)

\* the hrefs the filters of _parse_links discard, whatever was seen before
Discarded(href) ==
  \/ href = <<>>
  \/ href = <<".", ".", "/">>
  \/ StartsWith(href, <<"?">>)
  \/ StartsWith(href, <<"#">>)
  \/ StartsWith(href, <<"/">>)
  \/ Contains(href, <<":", "/", "/">>)

\* the tuple appended for a kept anchor
LinkOf(match, base_url) ==
  [name |-> RStrip(Strip(match.text), "/"),
   abs_url |-> urljoin(base_url, match.href),
   is_dir |-> EndsWith(match.href, <<"/">>)]

\* the loop of _parse_links over the matches, seen being the hrefs kept so far
RECURSIVE ParseFrom(_, _, _)
ParseFrom(html, base_url, seen) ==
  IF html = <<>> THEN <<>>
  ELSE LET match == Head(html)
       IN IF Discarded(match.href) \/ match.href \in seen
            THEN ParseFrom(Tail(html), base_url, seen)
            ELSE <<LinkOf(match, base_url)>>
                   \o ParseFrom(Tail(html), base_url, seen \cup {match.href})

_parse_links(html, base_url) == ParseFrom(html, base_url, {})

(***************************************************************************)
(* The sites that are crawled: a site maps the URL of a directory to the   *)
(* matches of its listing; every other URL answers with an HTTP error.     *)
(***************************************************************************)
Http == <<"h", "t", "t", "p", ":", "/", "/", "r">>
RootNoSlash == Http
RootSlash == Http \o <<"/">>
UrlA == RootSlash \o <<"a", "/">>
UrlB == RootSlash \o <<"b", "/">>
UrlAC == RootSlash \o <<"a", "/", "c", "/">>
UrlX == RootSlash \o <<"x", "/">>
UrlY == RootSlash \o <<"y", "/">>
UrlC == RootSlash \o <<"c", "/">>

Anchor(h, t) == [href |-> h, text |-> t]
\* an anchor of an autoindex listing: the text repeats the href
Plain(h) == Anchor(h, h)

\* the end-to-end scenario: a/ and b below the root, c below a/
SiteScenario ==
  (RootSlash :> <<Plain(<<"a", "/">>), Plain(<<"b">>)>>)
    @@ (UrlA :> <<Plain(<<"c">>)>>)

\* a tree three levels deep, two directories wide
SiteDeep ==
  (RootSlash :> <<Plain(<<"b", "/">>), Plain(<<"a", "/">>), Plain(<<"f">>)>>)
    @@ (UrlA :> <<Plain(<<"c", "/">>), Plain(<<"g">>)>>)
    @@ (UrlB :> <<Plain(<<"h">>)>>)
    @@ (UrlAC :> <<Plain(<<"x">>)>>)

\* two directories whose anchors show the same text
SiteSameText ==
  (RootSlash :> <<Anchor(<<"x", "/">>, <<"A">>), Anchor(<<"y", "/">>, <<"A">>)>>)
    @@ (UrlX :> <<Plain(<<"f">>)>>)
    @@ (UrlY :> <<Plain(<<"f">>)>>)

\* listings that link to themselves and to a sibling through the parent
SiteCycle ==
  (RootSlash :> <<Anchor(<<".", "/">>, <<"m", "/">>), Plain(<<"a", "/">>)>>)
    @@ (UrlA :> <<Anchor(<<".", ".", "/", "a", "/">>, <<"b", "/">>),
                  Anchor(<<".", ".">>, <<"p">>)>>)

\* the anchors the filters are about, a duplicate and a foreign scheme
SiteFilter ==
  (RootSlash :> <<Anchor(<<".", ".", "/">>, <<"p">>),
                  Anchor(<<"?", "C", "=", "N">>, <<"N">>),
                  Anchor(<<"/", "a", "/">>, <<"A">>),
                  Anchor(<<"h", "t", "t", "p", ":", "/", "/", "o", "/">>, <<"o">>),
                  Anchor(<<>>, <<"x">>),
                  Anchor(<<"#">>, <<"t">>),
                  Anchor(<<"c", "/">>, <<" ", "c", "/", " ">>),
                  Anchor(<<"c", "/">>, <<"c", "/">>),
                  Anchor(<<"m", ":", "x", "/">>, <<"m">>)>>)
    @@ (UrlC :> <<>>)

\* two hrefs of one page that resolve to the same directory
SiteAlias ==
  (RootSlash :> <<Plain(<<"a", "/">>), Anchor(<<".", "/", "a", "/">>, <<"b", "/">>)>>)
    @@ (UrlA :> <<Plain(<<"f">>)>>)

\* a root whose listing has no links
SiteEmpty == (RootSlash :> <<>>)

Sites ==
  {SiteScenario, SiteDeep, SiteSameText, SiteCycle, SiteFilter, SiteAlias,
   SiteEmpty}

\* _parse_links is a pure function: its value on every listing of every
\* site, computed once
ListingLinks ==
  [p \in Sites |-> [url \in DOMAIN p |-> _parse_links(p[url], url)]]

\* the root URL as the caller may pass it
RootInputs == {RootNoSlash, RootSlash}

\* lines 390-391 of crawl_directory
NormalizeRoot(u) == IF EndsWith(u, <<"/">>) THEN u ELSE u \o <<"/">>

(***************************************************************************)
(* State.                                                                  *)
(***************************************************************************)
VARIABLES
  arg_html,        \* _parse_links called on its own: its html (the matches)
  arg_base_url,    \* ... its base_url
  ret_links,       \* ... the list it returned
  caller,          \* who calls: "_run_crawl" (the command line) or "direct"
  url_arg,         \* the root URL as the caller passes it
  pages,           \* the site: URL of a directory |-> matches of its listing
  failing,         \* URLs whose fetch raises urllib.error.URLError
  undecodable,     \* URLs whose body resp.read().decode() cannot decode
  root_url,        \* crawl_directory's root_url (reassigned by line 391)
  max_depth,       \* crawl_directory's max_depth
  workers,         \* crawl_directory's workers
  pc,              \* where the calling thread is in crawl_directory
  level,           \* number of iterations of the while loop begun so far
  results,         \* list of entries [kind, path, url]
  current_level,   \* list of frontier items [url, depth, prefix]
  next_level,      \* the frontier being built by the merge loop
  idx,             \* position of the for loop of line 399 in current_level
  futures,         \* every Future created so far: [item, state, outcome]
  future_map,      \* the Futures (indices of futures) of this iteration
  yielded,         \* the Futures as_completed has handed to the loop body,
                   \* over all iterations (Futures are never reused)
  finished_first,  \* as_completed: the Futures found finished when it began
  finished_futures,\* as_completed: its waiter's list, in order of completion
  work_queue,      \* the executor's queue of work items not yet taken
  num_threads,     \* the executor's number of worker threads
  idle_semaphore   \* the executor's count of idle notifications

vars == <<arg_html, arg_base_url, ret_links, caller, url_arg, pages, failing,
          undecodable, root_url, max_depth, workers, pc, level,
          results, current_level, next_level, idx, futures, future_map,
          yielded, finished_first, finished_futures, work_queue, num_threads,
          idle_semaphore>>

\* the call of _parse_links on its own
parser == <<arg_html, arg_base_url, ret_links>>

inputs == <<caller, url_arg, pages, failing, undecodable, root_url, max_depth,
            workers>>
executor == <<futures, work_queue, num_threads, idle_semaphore>>
waiter == <<yielded, finished_first, finished_futures>>

(***************************************************************************)
(* _fetch_page: what the call returns or raises for a URL of the site.     *)
(***************************************************************************)
\* urllib.request.Request(url) finds a URL type: a text without "/" and ":"
\* followed by ":"; without one it raises ValueError (line 337)
HasUrlType(url) ==
  /\ FirstColon(url) > 1
  /\ \A j \in 1..(FirstColon(url) - 1) : url[j] # "/"

_fetch_page(url) ==
  IF ~HasUrlType(url)
    THEN [kind |-> "ValueError", html |-> <<>>]
  ELSE IF url \in undecodable
    THEN [kind |-> "UnicodeDecodeError", html |-> <<>>]
  ELSE IF url \in failing \/ url \notin DOMAIN pages
    THEN [kind |-> "URLError", html |-> <<>>]
  ELSE [kind |-> "html", html |-> pages[url]]

\* (variant) the loop body without the except clause of line 413
Caught_none(kind) == FALSE

\* (variant) the except clause names another exception than the fetch raises
Caught_other(kind) == kind = "UnicodeDecodeError"

\* except (urllib.error.URLError, OSError): the exceptions line 413 catches
Caught(kind) == kind = "URLError"

(***************************************************************************)
(* Pieces of crawl_directory.                                              *)
(***************************************************************************)
\* (variant) the test of line 400 written with > instead of >=
SkipItem_gt(depth) == depth > max_depth

\* (variant) the for loop without the test of line 400
SkipItem_none(depth) == FALSE

\* line 400: the items the for loop passes over without submitting
SkipItem(depth) == depth >= max_depth

\* (variant) the path of an entry without the prefix of its page
EntryOf_bare(link, prefix) ==
  [kind |-> IF link.is_dir THEN "d" ELSE "f",
   path |-> link.name \o (IF link.is_dir THEN <<"/">> ELSE <<>>),
   url |-> link.abs_url]

\* lines 417-418: the entry appended for a link
EntryOf(link, prefix) ==
  [kind |-> IF link.is_dir THEN "d" ELSE "f",
   path |-> prefix \o link.name \o (IF link.is_dir THEN <<"/">> ELSE <<>>),
   url |-> link.abs_url]

\* (variant) the item of a directory link gets the depth of its page plus 2
ItemOf_deeper(link, depth, prefix) ==
  [url |-> link.abs_url,
   depth |-> depth + 2,
   prefix |-> prefix \o link.name \o <<"/">>]

\* lines 420-422: the frontier item appended for a directory link
ItemOf(link, depth, prefix) ==
  [url |-> link.abs_url,
   depth |-> depth + 1,
   prefix |-> prefix \o link.name \o <<"/">>]

\* (variant) entries are appended for the files only
NewEntries_files(links, prefix) ==
  LET files == SelectSeq(links, LAMBDA link : ~link.is_dir)
  IN [i \in 1..Len(files) |-> EntryOf(files[i], prefix)]

\* the entries one page adds to results, in the order of its links
NewEntries(links, prefix) ==
  [i \in 1..Len(links) |-> EntryOf(links[i], prefix)]

\* (variant) every directory link is appended to next_level twice
NewItems_twice(links, depth, prefix) ==
  LET dirs == SelectSeq(links, LAMBDA link : link.is_dir)
  IN [i \in 1..(2 * Len(dirs)) |-> ItemOf(dirs[(i + 1) \div 2], depth, prefix)]

\* (variant) the append of the last directory link of a page is lost
NewItems_lost(links, depth, prefix) ==
  LET dirs == SelectSeq(links, LAMBDA link : link.is_dir)
  IN [i \in 1..(Len(dirs) - 1) |-> ItemOf(dirs[i], depth, prefix)]

\* the items one page adds to next_level, in the order of its links
NewItems(links, depth, prefix) ==
  LET dirs == SelectSeq(links, LAMBDA link : link.is_dir)
  IN [i \in 1..Len(dirs) |-> ItemOf(dirs[i], depth, prefix)]

\* (variant) line 426 left out
SortByPath_none(entries) == entries

\* line 426: results.sort(key=lambda x: x[1]).  list.sort is stable: an
\* entry comes before another when its path is smaller, or when the paths
\* are equal and it stood before the other in the list
SortByPath(entries) ==
  LET Before(i, j) ==
        \/ StrLess(entries[i].path, entries[j].path)
        \/ /\ entries[i].path = entries[j].path
           /\ i < j
      Rank(i) == Cardinality({j \in DOMAIN entries : Before(j, i)}) + 1
  IN [k \in DOMAIN entries |->
        entries[CHOOSE i \in DOMAIN entries : Rank(i) = k]]

(***************************************************************************)
(* Pieces of ThreadPoolExecutor and as_completed.                          *)
(***************************************************************************)
Running == {id \in 1..Len(futures) : futures[id].state = "RUNNING"}
Pending == {id \in 1..Len(futures) : futures[id].state = "PENDING"}

\* (variant) a thread is started for every submit that finds none idle
MaySpawn_always(n) == TRUE

\* _adjust_thread_count starts a thread only below max_workers
MaySpawn(n) == n < workers

Finished == {id \in 1..Len(futures) : futures[id].state = "FINISHED"}

\* (variant) the merge loop is left after the first Future it was handed
LevelComplete_first(map, done) == map \cap done # {}

\* as_completed is exhausted once every Future of the map was yielded
LevelComplete(map, done) == map \subseteq done

\* as_completed first yields the Futures that were finished when it began,
\* in the order of a set of objects, then the others as they complete
MayYield(id) ==
  /\ id \in future_map \ yielded
  /\ \/ id \in finished_first
     \/ /\ finished_first \subseteq yielded
        /\ finished_futures # <<>>
        /\ id = Head(finished_futures)

(***************************************************************************)
(* Initial state: the arguments, and lines 390-394.                        *)
(***************************************************************************)
\* the variables the arguments do not determine, before the first step
InitLocals ==
  /\ arg_html = <<>>
  /\ arg_base_url = <<>>
  /\ ret_links = <<>>
  /\ root_url = url_arg
  /\ pc = IF caller = "_run_crawl" THEN "main" ELSE "crawl"
  /\ level = 0
  /\ results = <<>>
  /\ current_level = <<>>
  /\ next_level = <<>>
  /\ idx = 1
  /\ futures = <<>>
  /\ future_map = {}
  /\ yielded = {}
  /\ finished_first = {}
  /\ finished_futures = <<>>
  /\ work_queue = <<>>
  /\ num_threads = 0
  /\ idle_semaphore = 0

\* the failures of the site
InitFailures ==
  /\ failing \in SUBSET (DOMAIN pages)
  /\ undecodable \in SUBSET (DOMAIN pages)
  /\ failing \cap undecodable = {}
  /\ Cardinality(failing \cup undecodable) <= MaxFailures

\* crawl_directory called with arguments that meet its preconditions
Init ==
  /\ pages \in Sites
  /\ InitFailures
  /\ caller = "direct"
  /\ url_arg \in RootInputs
  /\ max_depth \in 0..MaxDepthArg
  /\ workers \in 1..MaxWorkersArg
  /\ InitLocals

\* the sites crawled with any arguments
ConfigSites == {SiteScenario, SiteEmpty}

\* a crawl with any arguments, from the command line or by a direct call:
\* also an empty root URL, a max_depth and a number of workers that are not
\* positive
ConfigInit ==
  /\ pages \in ConfigSites
  /\ InitFailures
  /\ caller \in {"_run_crawl", "direct"}
  /\ url_arg \in RootInputs \cup {<<>>}
  /\ max_depth \in (-1)..MaxDepthArg
  /\ workers \in IF caller = "_run_crawl" THEN {DefaultWorkers}
                 ELSE (-1)..MaxWorkersArg
  /\ InitLocals

(***************************************************************************)
(* The calling thread.                                                     *)
(***************************************************************************)
\* lines 449-455 of _run_crawl: without a URL the usage is printed and the
\* process exits with status 1, else crawl_directory is called
RunCrawl ==
  /\ pc = "main"
  /\ pc' = IF url_arg = <<>> THEN "exit1" ELSE "crawl"
  /\ UNCHANGED <<parser, inputs,
                 level, results, current_level, next_level, idx,
                 future_map, executor, waiter>>

\* (variant) an executor that accepts any max_workers
BadWorkers_none(n) == FALSE

\* ThreadPoolExecutor(max_workers=n) raises ValueError for these n
BadWorkers(n) == n <= 0

\* lines 390-396: the root URL gets its final "/", results and the first
\* frontier are set up, the executor is made
Begin ==
  /\ pc = "crawl"
  /\ root_url' = NormalizeRoot(root_url)
  /\ results' = <<>>
  /\ current_level' =
       <<[url |-> NormalizeRoot(root_url), depth |-> 0, prefix |-> <<>>]>>
  /\ pc' = IF BadWorkers(workers) THEN "raised" ELSE "while"
  /\ UNCHANGED <<parser, caller, url_arg, pages, failing, undecodable,
                 max_depth, workers, level, next_level, idx, future_map,
                 executor, waiter>>

\* lines 397-398: the test of the while loop and the fresh future_map
WhileTest ==
  /\ pc = "while"
  /\ IF current_level # <<>>
       THEN /\ pc' = "for"
            /\ idx' = 1
            /\ future_map' = {}
            /\ level' = level + 1
       ELSE /\ pc' = "exit"
            /\ UNCHANGED <<idx, future_map, level>>
  /\ UNCHANGED <<parser, inputs,
                 results, current_level, next_level, executor, waiter>>

\* lines 399-403: one iteration of the for loop; executor.submit puts the
\* work item on the queue and adjusts the thread count
Dispatch ==
  /\ pc = "for"
  /\ idx <= Len(current_level)
  /\ LET item == current_level[idx]
         id == Len(futures) + 1
     IN IF SkipItem(item.depth)
          THEN UNCHANGED <<future_map, executor>>
          ELSE /\ futures' = Append(futures,
                     [item |-> item, state |-> "PENDING", outcome |-> "none"])
               /\ future_map' = future_map \cup {id}
               /\ work_queue' = Append(work_queue, id)
               /\ IF idle_semaphore > 0
                    THEN /\ idle_semaphore' = idle_semaphore - 1
                         /\ UNCHANGED num_threads
                    ELSE /\ num_threads' =
                              IF MaySpawn(num_threads) THEN num_threads + 1
                              ELSE num_threads
                         /\ UNCHANGED idle_semaphore
  /\ idx' = idx + 1
  /\ UNCHANGED <<parser, inputs,
                 pc, level, results, current_level, next_level, waiter>>

\* lines 405-409: after the for loop; as_completed begins
EndDispatch ==
  /\ pc = "for"
  /\ idx > Len(current_level)
  /\ IF future_map = {}
       THEN pc' = "exit" /\ UNCHANGED <<next_level, waiter>>
       ELSE /\ pc' = "collect"
            /\ next_level' = <<>>
            /\ UNCHANGED yielded
            /\ finished_first' = future_map \cap Finished
            /\ finished_futures' = <<>>
  /\ UNCHANGED <<parser, inputs,
                 level, results, current_level, idx, future_map,
                 executor>>

\* lines 409-422: as_completed yields a finished Future and the body runs
Merge(id) ==
  /\ pc = "collect"
  /\ MayYield(id)
  /\ yielded' = yielded \cup {id}
  /\ finished_futures' = IF id \in finished_first THEN finished_futures
                         ELSE Tail(finished_futures)
  /\ UNCHANGED finished_first
  /\ LET item == futures[id].item
         kind == futures[id].outcome
         \* line 416: _parse_links(html, url), html being pages[item.url]
         links == ListingLinks[pages][item.url]
     IN IF kind = "html"
          THEN /\ results' = results \o NewEntries(links, item.prefix)
               /\ next_level' =
                    next_level \o NewItems(links, item.depth, item.prefix)
               /\ UNCHANGED pc
          ELSE IF Caught(kind)
            THEN UNCHANGED <<pc, results, next_level>>
            ELSE /\ pc' = "raising"
                 /\ UNCHANGED <<results, next_level>>
  /\ UNCHANGED <<parser, inputs,
                 level, current_level, idx, future_map, executor>>

\* line 409 exhausted, line 424
EndCollect ==
  /\ pc = "collect"
  /\ LevelComplete(future_map, yielded)
  /\ current_level' = next_level
  /\ pc' = "while"
  /\ UNCHANGED <<parser, inputs,
                 level, results, next_level, idx, future_map, waiter,
                 executor>>

\* line 396, leaving the with block: shutdown(wait=True) joins the threads,
\* which first run every queued work item; then lines 426-427, or the
\* exception of the loop body goes on to the caller
ExitExecutor ==
  /\ pc \in {"exit", "raising"}
  /\ Running = {}
  /\ Pending = {}
  /\ IF pc = "exit"
       THEN pc' = "done" /\ results' = SortByPath(results)
       ELSE pc' = "raised" /\ UNCHANGED results
  /\ UNCHANGED <<parser, inputs,
                 level, current_level, next_level, idx, future_map,
                 waiter, executor>>

(***************************************************************************)
(* The worker threads of the executor.                                     *)
(***************************************************************************)
\* a thread that is not running a work item takes the next one off the queue
StartFetch ==
  /\ work_queue # <<>>
  /\ Cardinality(Running) < num_threads
  /\ futures' = [futures EXCEPT ![Head(work_queue)].state = "RUNNING"]
  /\ work_queue' = Tail(work_queue)
  /\ UNCHANGED <<parser, inputs,
                 pc, level, results, current_level, next_level, idx,
                 future_map, waiter, num_threads, idle_semaphore>>

\* _fetch_page returns or raises: the Future gets its result or exception,
\* and the waiter of a running as_completed is told
FinishFetch(id) ==
  /\ id \in Running
  /\ futures' = [futures EXCEPT
                   ![id].state = "FINISHED",
                   ![id].outcome = _fetch_page(futures[id].item.url).kind]
  /\ finished_futures' = IF pc = "collect" /\ id \in future_map
                           THEN Append(finished_futures, id)
                           ELSE finished_futures
  /\ idle_semaphore' = idle_semaphore + 1
  /\ UNCHANGED <<parser, inputs,
                 pc, level, results, current_level, next_level, idx,
                 future_map, yielded, finished_first, work_queue, num_threads>>

Next ==
  \/ Begin
  \/ WhileTest
  \/ Dispatch
  \/ EndDispatch
  \/ \E id \in 1..Len(futures) : Merge(id)
  \/ EndCollect
  \/ ExitExecutor
  \/ StartFetch
  \/ \E id \in 1..Len(futures) : FinishFetch(id)

Spec == Init /\ [][Next]_vars

\* the crawl called with any arguments, also through _run_crawl
ConfigNext ==
  \/ RunCrawl
  \/ Next

ConfigSpec == ConfigInit /\ [][ConfigNext]_vars

(***************************************************************************)
(* _parse_links called on its own, on any page of at most MaxAnchors       *)
(* anchors taken from ParseAnchors.                                        *)
(***************************************************************************)
ParseHrefs ==
  {<<>>, <<".", ".", "/">>, <<".", ".">>, <<"?", "C">>, <<"#">>, <<"#", "a">>,
   <<"/", "a">>, <<"a">>, <<"a", "/">>, <<"b", "/">>,
   <<"m", ":", "/", "/", "o">>, <<"a", ":", "/", "/">>}

ParseAnchors ==
  {Plain(h) : h \in ParseHrefs}
    \cup {Anchor(<<"a", "/">>, <<" ", "A", "/", " ">>), Anchor(<<"b", "/">>, <<>>)}

ParsePages ==
  UNION {[1..n -> ParseAnchors] : n \in 0..MaxAnchors}

ParseInit ==
  /\ arg_html \in ParsePages
  /\ arg_base_url \in {RootSlash, UrlA}
  /\ ret_links = <<>>
  /\ caller = "direct"
  /\ url_arg = RootSlash
  /\ pages = SiteScenario
  /\ failing = {}
  /\ undecodable = {}
  /\ max_depth = 0
  /\ workers = 1
  /\ root_url = RootSlash
  /\ pc = "parse"
  /\ level = 0
  /\ results = <<>>
  /\ current_level = <<>>
  /\ next_level = <<>>
  /\ idx = 1
  /\ futures = <<>>
  /\ future_map = {}
  /\ yielded = {}
  /\ finished_first = {}
  /\ finished_futures = <<>>
  /\ work_queue = <<>>
  /\ num_threads = 0
  /\ idle_semaphore = 0

\* lines 354-370: the call returns its list
ParseLinks ==
  /\ pc = "parse"
  /\ ret_links' = _parse_links(arg_html, arg_base_url)
  /\ pc' = "parsed"
  /\ UNCHANGED <<arg_html, arg_base_url, inputs, level, results, current_level,
                 next_level, idx, future_map, executor, waiter>>

ParseNext == ParseLinks

ParseSpec == ParseInit /\ [][ParseNext]_vars

\* every thread that can take a step eventually takes it, and every fetch
\* that was started eventually returns or raises
Fairness ==
  /\ WF_vars(Begin)
  /\ WF_vars(WhileTest)
  /\ WF_vars(Dispatch)
  /\ WF_vars(EndDispatch)
  /\ WF_vars(\E id \in 1..Len(futures) : Merge(id))
  /\ WF_vars(EndCollect)
  /\ WF_vars(ExitExecutor)
  /\ WF_vars(StartFetch)
  /\ WF_vars(\E id \in 1..Len(futures) : FinishFetch(id))

FairSpec == Spec /\ Fairness

TypeOK ==
  /\ Len(ret_links) <= Len(arg_html)
  /\ pc \in {"parse", "parsed", "main", "exit1", "crawl", "while", "for",
            "collect", "exit", "raising", "done", "raised"}
  /\ max_depth \in (-1)..(MaxDepthArg + 1)
  /\ workers \in (-1)..(MaxWorkersArg + 1) \cup {DefaultWorkers}
  /\ future_map \subseteq 1..Len(futures)
  /\ yielded \subseteq 1..Len(futures)
  /\ pc = "collect" => finished_first \subseteq future_map

(***************************************************************************)
(* Reference crawl: the listing tree walked level by level by one thread,  *)
(* in the order of the frontier, for a number of levels.  It is what a     *)
(* crawl is compared with; bad are the URLs whose fetch fails.             *)
(***************************************************************************)
RefLinks(p, bad, url) ==
  IF url \in bad \/ url \notin DOMAIN p THEN <<>> ELSE _parse_links(p[url], url)

RefEntry(link, prefix) ==
  IF link.is_dir
    THEN [kind |-> "d", path |-> prefix \o link.name \o <<"/">>, url |-> link.abs_url]
    ELSE [kind |-> "f", path |-> prefix \o link.name, url |-> link.abs_url]

\* the entries and the next frontier of one level
RECURSIVE RefExpand(_, _, _)
RefExpand(p, bad, frontier) ==
  IF frontier = <<>> THEN [entries |-> <<>>, next |-> <<>>]
  ELSE LET item == Head(frontier)
           rest == RefExpand(p, bad, Tail(frontier))
           links == RefLinks(p, bad, item.url)
           dirs == SelectSeq(links, LAMBDA link : link.is_dir)
       IN [entries |->
             [i \in 1..Len(links) |-> RefEntry(links[i], item.prefix)]
               \o rest.entries,
           next |->
             [i \in 1..Len(dirs) |->
                [url |-> dirs[i].abs_url,
                 prefix |-> item.prefix \o dirs[i].name \o <<"/">>]]
               \o rest.next]

\* the entries found and the items fetched within the next n levels
RECURSIVE RefCrawl(_, _, _, _)
RefCrawl(p, bad, frontier, n) ==
  IF frontier = <<>> \/ n = 0 THEN [entries |-> <<>>, fetched |-> <<>>]
  ELSE LET here == RefExpand(p, bad, frontier)
           below == RefCrawl(p, bad, here.next, n - 1)
       IN [entries |-> here.entries \o below.entries,
           fetched |-> frontier \o below.fetched]

RefRoot == <<[url |-> root_url, prefix |-> <<>>]>>

\* the same elements, each as often, in any order
Count(seq, e) == Cardinality({i \in DOMAIN seq : seq[i] = e})
SameBag(a, b) ==
  /\ Len(a) = Len(b)
  /\ \A i \in DOMAIN a : Count(a, a[i]) = Count(b, a[i])

FutureIds == 1..Len(futures)
\* the Futures whose fetch a worker has begun
Started == {id \in FutureIds : futures[id].state # "PENDING"}
\* the items fetched so far, as the reference names them
FetchedItems ==
  [id \in FutureIds |->
     [url |-> futures[id].item.url, prefix |-> futures[id].item.prefix]]

(***************************************************************************)
(* C1  Determinism.  A crawl that returns, returns the list the reference  *)
(* crawl of the same site, failing URLs and max_depth gives, whatever the  *)
(* number of workers and the order in which the fetches completed.         *)
(***************************************************************************)
C1_Determinism ==
  pc = "done" =>
    results = SortByPath(RefCrawl(pages, failing \cup undecodable,
                                  RefRoot, max_depth).entries)

(***************************************************************************)
(* C2  Concurrency bound.  The fetches in flight (begun by a worker and    *)
(* not finished) are never more than workers; the others wait queued.      *)
(***************************************************************************)
C2_ConcurrencyBound == Cardinality(Running) <= workers

\* every worker is fetching and an item of the level still waits
C2_Witness ==
  /\ Cardinality(Running) = workers
  /\ work_queue # <<>>
  /\ Cardinality(future_map) > workers

(***************************************************************************)
(* C3  Level barrier.  When the fetch of an item of depth d+1 has begun,   *)
(* every Future of depth d is finished and was handed to the merge loop.   *)
(***************************************************************************)
C3_LevelBarrier ==
  \A f \in Started : \A g \in FutureIds :
    futures[f].item.depth = futures[g].item.depth + 1 =>
      /\ futures[g].state = "FINISHED"
      /\ g \in yielded

\* a fetch of the next depth runs after a level of two fetches
C3_Witness ==
  \E f \in Running : \E g, h \in FutureIds :
    /\ g # h
    /\ futures[g].item.depth = futures[h].item.depth
    /\ futures[f].item.depth = futures[g].item.depth + 1

(***************************************************************************)
(* C4  Partial failure isolation.  With fetch failures and no undecodable  *)
(* body the crawl never raises, and it returns exactly the entries, and    *)
(* has fetched exactly the items, of the crawl of the site in which the    *)
(* failing directories have empty listings.                                *)
(***************************************************************************)
EmptiedPages == [u \in DOMAIN pages |-> IF u \in failing THEN <<>> ELSE pages[u]]

C4_FailureIsolation ==
  (failing # {} /\ undecodable = {}) =>
    /\ pc \notin {"raising", "raised"}
    /\ pc = "done" =>
         LET ref == RefCrawl(EmptiedPages, {}, RefRoot, max_depth)
         IN /\ SameBag(results, ref.entries)
            /\ SameBag(FetchedItems, ref.fetched)

\* the crawl returned entries although the fetch of a directory failed
\* next to one that succeeded
C4_Witness ==
  /\ pc = "done"
  /\ undecodable = {}
  /\ results # <<>>
  /\ \E f, g \in FutureIds :
       /\ futures[f].item.url \in failing
       /\ futures[f].outcome = "URLError"
       /\ futures[g].item.depth = futures[f].item.depth
       /\ futures[g].outcome = "html"
       /\ _parse_links(pages[futures[g].item.url], futures[g].item.url) # <<>>

(***************************************************************************)
(* C5  Depth limit on fetches.  No Future exists for an item of depth      *)
(* >= max_depth, and every such item of a frontier, but the root, has its  *)
(* directory entry in results.                                             *)
(***************************************************************************)
FrontierItems ==
  {current_level[i] : i \in DOMAIN current_level}
    \cup {next_level[i] : i \in DOMAIN next_level}

C5_DepthLimit ==
  /\ \A id \in FutureIds : futures[id].item.depth < max_depth
  /\ \A item \in FrontierItems :
       (item.depth >= max_depth /\ item.depth >= 1) =>
         \E i \in DOMAIN results :
           results[i] = [kind |-> "d", path |-> item.prefix, url |-> item.url]

\* the crawl returned and left an item at the depth limit unfetched
C5_Witness ==
  /\ pc = "done"
  /\ \E i \in DOMAIN current_level :
       /\ current_level[i].depth >= max_depth
       /\ current_level[i].depth >= 1
       /\ current_level[i].url \in DOMAIN pages

(***************************************************************************)
(* C6  Depth limit on the result.  Every entry comes from a link of a page *)
(* fetched at a depth below max_depth; with max_depth = 0 nothing is       *)
(* fetched and nothing recorded; with max_depth = 1 the list returned is   *)
(* made of the links of the root page.                                     *)
(***************************************************************************)
C6_DepthBound ==
  /\ \A i \in DOMAIN results :
       \E id \in yielded :
         LET item == futures[id].item
         IN /\ futures[id].outcome = "html"
            /\ item.depth + 1 <= max_depth
            /\ \E link \in {RefLinks(pages, {}, item.url)[k] :
                              k \in DOMAIN RefLinks(pages, {}, item.url)} :
                 results[i] = RefEntry(link, item.prefix)
  /\ max_depth = 0 => (futures = <<>> /\ results = <<>>)
  /\ (max_depth = 1 /\ pc = "done") =>
       SameBag(results,
               RefExpand(pages, failing \cup undecodable, RefRoot).entries)

\* max_depth = 1 returned the links of the root although a directory
\* among them has links of its own
C6_Witness ==
  /\ pc = "done"
  /\ max_depth = 1
  /\ \E i \in DOMAIN results :
       /\ results[i].kind = "d"
       /\ RefLinks(pages, failing, results[i].url) # <<>>

(***************************************************************************)
(* C7  Fetches per URL.                                                    *)
(***************************************************************************)
FetchCount(url) == Cardinality({id \in Started : futures[id].item.url = url})
LinkCount(url) ==
  Cardinality({i \in DOMAIN results :
                 results[i].kind = "d" /\ results[i].url = url})
DirEntries == {i \in DOMAIN results : results[i].kind = "d"}
\* the directory links found so far lead to different URLs, none the root
TreeSoFar ==
  /\ \A i, j \in DirEntries : i # j => results[i].url # results[j].url
  /\ \A i \in DirEntries : results[i].url # root_url

\* C7 as stated: no URL is fetched more than once per crawl, for every
\* listing the extractor can produce
C7_FetchedOnce == \A id \in Started : FetchCount(futures[id].item.url) <= 1

\* C7 as amended: a URL is fetched at most once for every directory link
\* found that resolves to it, and once more when it is the root URL; so no
\* URL is fetched twice while the directory links found lead to different
\* URLs, none of them the root
C7_FetchedOncePerLink ==
  /\ \A id \in Started :
       LET url == futures[id].item.url
       IN FetchCount(url) <= LinkCount(url) + (IF url = root_url THEN 1 ELSE 0)
  /\ TreeSoFar => C7_FetchedOnce

\* a tree of several directories was crawled
C7_Witness ==
  /\ pc = "done"
  /\ TreeSoFar
  /\ Cardinality(Started) >= 3

(***************************************************************************)
(* C8  Path uniqueness.  No two entries of results have the same path.     *)
(***************************************************************************)
C8_PathsUnique ==
  \A i, j \in DOMAIN results : i # j => results[i].path # results[j].path

(***************************************************************************)
(* C9  Termination.  When every thread keeps running and every fetch       *)
(* returns or raises, the crawl eventually returns.                        *)
(***************************************************************************)
C9_Returns == <>(pc = "done")

(***************************************************************************)
(* C10  Runtime failures never abort the crawl: whatever way a fetch       *)
(* fails, no exception leaves crawl_directory.                             *)
(***************************************************************************)
C10_NeverAborts == pc \notin {"raising", "raised"}


(***************************************************************************)
(* C11: configuration errors.                                              *)
(***************************************************************************)

\* the arguments the claim calls invalid
InvalidConfig == url_arg = <<>> \/ max_depth <= 0 \/ workers <= 0

\* the futures whose fetch got as far as opening the URL
Opened == {id \in FutureIds : HasUrlType(futures[id].item.url)}

\* C11 as stated: a crawl with an empty root URL, a max_depth <= 0 or a
\* number of workers <= 0 never returns a list and never opens a URL
C11_ConfigError ==
  InvalidConfig => pc # "done" /\ Opened = {}

\* C11 as the code has it: (a) a number of workers <= 0 raises before any
\* fetch; (b) the command line without a URL exits before the crawl; (c) a
\* max_depth <= 0 with a valid number of workers is no error: no fetch, and
\* the empty list is returned; (d) a direct call with an empty root URL, a
\* max_depth >= 1 and workers >= 1 submits one fetch of "/", which opens
\* nothing, and returns no list
C11_ConfigOutcomes ==
  /\ workers <= 0 =>
       pc \in {"crawl", "raised"} /\ futures = <<>>
  /\ caller = "_run_crawl" /\ url_arg = <<>> =>
       pc \in {"main", "exit1"} /\ futures = <<>>
  /\ max_depth <= 0 /\ workers >= 1 =>
       /\ futures = <<>>
       /\ pc \notin {"raising", "raised"}
       /\ pc = "done" => results = <<>>
  /\ caller = "direct" /\ url_arg = <<>> /\ max_depth >= 1 /\ workers >= 1 =>
       /\ Len(futures) <= 1
       /\ Opened = {}
       /\ results = <<>>
       /\ pc # "done"

\* the executor has refused its number of workers, nothing was fetched
C11_Witness ==
  /\ pc = "raised"
  /\ workers <= 0
  /\ max_depth >= 1
  /\ futures = <<>>


(***************************************************************************)
(* C12: _parse_links against its reference filter.                         *)
(***************************************************************************)

\* the hrefs the claim lets through
Allowed(href) ==
  /\ href # <<>>
  /\ href # <<".", ".", "/">>
  /\ href[1] \notin {"?", "#", "/"}
  /\ ~\E i \in 1..(Len(href) - 2) :
        href[i] = ":" /\ href[i + 1] = "/" /\ href[i + 2] = "/"

\* the positions of the anchors the claim keeps: allowed, and the first
\* of their href on the page
KeptAt(page) ==
  {i \in DOMAIN page :
     /\ Allowed(page[i].href)
     /\ \A j \in 1..(i - 1) : page[j].href # page[i].href}

\* the k-th kept position, in the order of the page
KeptNth(page, k) ==
  CHOOSE i \in KeptAt(page) : Cardinality({j \in KeptAt(page) : j <= i}) = k

\* C12: _parse_links returns, in the order of the page, one link for every
\* anchor that the reference filter keeps and no other, and the link is a
\* directory iff the href of its anchor ends with "/"
C12_ReferenceFilter ==
  pc = "parsed" =>
    /\ Len(ret_links) = Cardinality(KeptAt(arg_html))
    /\ \A k \in DOMAIN ret_links :
         LET a == arg_html[KeptNth(arg_html, k)]
         IN /\ ret_links[k].name = RStrip(Strip(a.text), "/")
            /\ ret_links[k].abs_url = urljoin(arg_base_url, a.href)
            /\ ret_links[k].is_dir <=> a.href[Len(a.href)] = "/"

\* a page of MaxAnchors anchors with a repeated href; two links are returned
C12_Witness ==
  /\ pc = "parsed"
  /\ Len(ret_links) = 2
  /\ Len(arg_html) = MaxAnchors
  /\ \E i, j \in DOMAIN arg_html :
       i < j /\ arg_html[i].href = arg_html[j].href /\ Allowed(arg_html[i].href)


(***************************************************************************)
(* C13: sorted output.                                                     *)
(***************************************************************************)

\* path[i] <= path[i+1] for every adjacent pair
NonDecreasing(entries) ==
  \A i \in 1..(Len(entries) - 1) :
    ~StrLess(entries[i + 1].path, entries[i].path)

\* C13: the step with which crawl_directory returns turns the accumulated
\* entries into a permutation of them that is non-decreasing by path
C13_SortedOutput ==
  [][pc # "done" /\ pc' = "done" =>
       SameBag(results', results) /\ NonDecreasing(results')]_vars

\* the tree of SiteDeep was returned: its root lists b/ before a/, the list
\* returned begins with a/
C13_Witness ==
  /\ pc = "done"
  /\ pages = SiteDeep
  /\ Len(results) >= 5
  /\ results[1].path = <<"a", "/">>


(***************************************************************************)
(* C14: every frontier item is consumed exactly once.                      *)
(***************************************************************************)

\* C14 as stated, at the return of the crawl: every item of the last
\* frontier (as of every frontier before it) was handed to a worker
C14_ConsumedOnce ==
  pc = "done" =>
    \A i \in DOMAIN current_level :
      \E id \in FutureIds : futures[id].item = current_level[i]

\* the items of a frontier that are below the depth limit, in their order
BelowLimit(frontier) ==
  SelectSeq(frontier, LAMBDA item : item.depth < max_depth)

\* the part of current_level the for loop has gone through
Dispatched ==
  IF pc = "for" THEN SubSeq(current_level, 1, idx - 1) ELSE current_level

\* the Futures of the level are, one for one and in order, the items of the
\* frontier below the depth limit that the for loop has gone through; a
\* crawl that returns has run every Future to its end
C14_OneFuturePerItem ==
  /\ pc \in {"for", "collect"} =>
       LET items == BelowLimit(Dispatched)
           base == Len(futures) - Len(items)
       IN /\ base >= 0
          /\ future_map = (base + 1)..Len(futures)
          /\ \A k \in DOMAIN items : futures[base + k].item = items[k]
  /\ \A id \in FutureIds : futures[id].item.depth < max_depth
  /\ pc = "done" =>
       /\ \A id \in FutureIds : futures[id].state = "FINISHED"
       /\ \A i \in DOMAIN current_level : current_level[i].depth >= max_depth

\* a step keeps every Future and its item, moves a Future only from pending
\* to running or from running to finished, keeps every item of the
\* frontiers as it is, and makes the next frontier the current one whole
C14_ItemsKept ==
  /\ Len(futures') \in {Len(futures), Len(futures) + 1}
  /\ \A id \in FutureIds :
       /\ futures'[id].item = futures[id].item
       /\ \/ futures'[id].state = futures[id].state
          \/ futures[id].state = "PENDING" /\ futures'[id].state = "RUNNING"
          \/ futures[id].state = "RUNNING" /\ futures'[id].state = "FINISHED"
  /\ \/ current_level' = current_level
     \/ pc = "crawl"
     \/ pc = "collect" /\ current_level' = next_level
  /\ \/ /\ Len(next_level') >= Len(next_level)
        /\ SubSeq(next_level', 1, Len(next_level)) = next_level
     \/ pc = "for" /\ next_level' = <<>>

\* C14 as the code has it: an item below the depth limit is fetched exactly
\* once when the crawl returns and at most once when it raises, an item at
\* or above the limit is never fetched, and no item is changed
C14_ConsumedOnceBelowLimit ==
  []C14_OneFuturePerItem /\ [][C14_ItemsKept]_vars

\* a crawl has returned: several items were fetched, one was passed over
C14_Witness ==
  /\ pc = "done"
  /\ Len(futures) >= 2
  /\ current_level # <<>>


(***************************************************************************)
(* C15: the merge step.                                                    *)
(***************************************************************************)

\* the links of the page a Future fetched; none when the fetch failed
LinksOf(id) ==
  IF futures[id].outcome = "html"
    THEN ListingLinks[pages][futures[id].item.url]
    ELSE <<>>

\* the entry the claim gives a link of a page fetched with pathPrefix prefix
MergedEntry(link, prefix) ==
  IF link.is_dir
    THEN [kind |-> "d", path |-> prefix \o link.name \o <<"/">>,
          url |-> link.abs_url]
    ELSE [kind |-> "f", path |-> prefix \o link.name, url |-> link.abs_url]

\* the entries of the links of the Futures 1..n, Future by Future
RECURSIVE MergedUpTo(_)
MergedUpTo(n) ==
  IF n = 0 THEN <<>>
  ELSE MergedUpTo(n - 1)
         \o [k \in DOMAIN LinksOf(n) |->
               MergedEntry(LinksOf(n)[k], futures[n].item.prefix)]

\* a step that hands a Future to the loop body appends one entry for every
\* link of its page and one item for every directory link, in the order of
\* the links; no other step adds to results or to next_level
C15_MergeAppends ==
  IF yielded' = yielded
    THEN /\ \/ results' = results
            \/ pc' = "done" /\ Len(results') = Len(results)
         /\ next_level' = next_level \/ next_level' = <<>>
    ELSE LET id == CHOOSE id \in yielded' : id \notin yielded
             item == futures[id].item
             found == LinksOf(id)
             dirs == SelectSeq(found, LAMBDA link : link.is_dir)
         IN /\ Len(results') = Len(results) + Len(found)
            /\ SubSeq(results', 1, Len(results)) = results
            /\ \A k \in DOMAIN found :
                 results'[Len(results) + k] = MergedEntry(found[k], item.prefix)
            /\ Len(next_level') = Len(next_level) + Len(dirs)
            /\ SubSeq(next_level', 1, Len(next_level)) = next_level
            /\ \A k \in DOMAIN dirs :
                 next_level'[Len(next_level) + k] =
                   [url |-> dirs[k].abs_url,
                    depth |-> item.depth + 1,
                    prefix |-> item.prefix \o dirs[k].name \o <<"/">>]

\* a crawl without a failing fetch returns the links of the pages it
\* fetched, each as often as it was found
C15_AllLinks ==
  (pc = "done" /\ failing = {} /\ undecodable = {}) =>
    SameBag(results, MergedUpTo(Len(futures)))

\* C15: both of the above
C15_MergeStep ==
  []C15_AllLinks /\ [][C15_MergeAppends]_vars

\* the page of a directory below the root was merged: a directory link of
\* it has its entry under the prefix of the page and its item at depth 2
C15_Witness ==
  /\ pc = "collect"
  /\ \E i \in DOMAIN next_level :
       /\ next_level[i].depth = 2
       /\ \E j \in DOMAIN results :
            /\ results[j].kind = "d"
            /\ results[j].path = next_level[i].prefix
            /\ results[j].url = next_level[i].url


(***************************************************************************)
(* C16: frontier provenance.                                               *)
(***************************************************************************)

\* C16: every item of a frontier but the root item has a depth d >= 1, and
\* results holds a directory entry with the item's pathPrefix as path and
\* the item's url as url, which is the entry of a directory link of a page
\* that was fetched at depth d - 1 and merged
C16_FrontierProvenance ==
  \A item \in FrontierItems :
    \/ item = [url |-> root_url, depth |-> 0, prefix |-> <<>>]
    \/ /\ item.depth >= 1
       /\ \E i \in DOMAIN results :
            /\ results[i].kind = "d"
            /\ results[i].path = item.prefix
            /\ results[i].url = item.url
            /\ \E id \in yielded :
                 /\ futures[id].item.depth = item.depth - 1
                 /\ \E k \in DOMAIN LinksOf(id) :
                      /\ LinksOf(id)[k].is_dir
                      /\ results[i] =
                           MergedEntry(LinksOf(id)[k], futures[id].item.prefix)

\* the for loop is at a frontier of directories found two levels down
C16_Witness ==
  /\ pc = "for"
  /\ \E i \in DOMAIN current_level : current_level[i].depth = 2


(***************************************************************************)
(* C17: safe aggregation.                                                  *)
(***************************************************************************)

\* the entries of the links of the Futures among 1..n that are in merged
RECURSIVE EntriesAmong(_, _)
EntriesAmong(n, merged) ==
  IF n = 0 THEN <<>>
  ELSE EntriesAmong(n - 1, merged)
         \o (IF n \in merged
               THEN [k \in DOMAIN LinksOf(n) |->
                       MergedEntry(LinksOf(n)[k], futures[n].item.prefix)]
               ELSE <<>>)

\* the items of the directory links of the Futures among 1..n in merged
RECURSIVE ItemsAmong(_, _)
ItemsAmong(n, merged) ==
  IF n = 0 THEN <<>>
  ELSE ItemsAmong(n - 1, merged)
         \o (IF n \in merged
               THEN LET dirs == SelectSeq(LinksOf(n), LAMBDA link : link.is_dir)
                    IN [k \in DOMAIN dirs |->
                          [url |-> dirs[k].abs_url,
                           depth |-> futures[n].item.depth + 1,
                           prefix |-> futures[n].item.prefix
                                        \o dirs[k].name \o <<"/">>]]
               ELSE <<>>)

\* in whatever order the fetches of a level end, results holds the entries
\* of the Futures merged so far and next_level the items of those of this
\* level, each once; between two levels and at the return every Future has
\* been merged
C17_NothingLostOrDuplicated ==
  /\ pc \notin {"parse", "parsed"} =>
       SameBag(results, EntriesAmong(Len(futures), yielded))
  /\ pc = "collect" =>
       SameBag(next_level, ItemsAmong(Len(futures), yielded \cap future_map))
  /\ pc \in {"while", "exit", "done"} => yielded = FutureIds

\* a step of a worker (a Future changes its state) sets the outcome of its
\* own Future to what the fetch of its URL gives and leaves results and the
\* frontiers alone; results and next_level change only in a step of the
\* calling thread
C17_WorkersOnlyFetch ==
  /\ (Len(futures') = Len(futures) /\ futures' # futures) =>
       /\ results' = results
       /\ next_level' = next_level
       /\ current_level' = current_level
       /\ \E id \in FutureIds :
            /\ \A other \in FutureIds \ {id} : futures'[other] = futures[other]
            /\ futures'[id].state = "FINISHED" =>
                 futures'[id].outcome = _fetch_page(futures[id].item.url).kind
  /\ (results' # results \/ next_level' # next_level) =>
       /\ futures' = futures
       /\ pc' # pc \/ yielded' # yielded

\* C17: both of the above
C17_SafeAggregation ==
  []C17_NothingLostOrDuplicated /\ [][C17_WorkersOnlyFetch]_vars

\* two pages of one level were merged in the reverse of the order in which
\* their fetches were submitted
C17_Witness ==
  /\ pc = "collect"
  /\ \E a, b \in yielded \cap future_map :
       /\ a < b
       /\ LinksOf(a) # <<>>
       /\ LinksOf(b) # <<>>
       /\ \E i, j \in DOMAIN results :
            /\ i < j
            /\ results[i] = MergedEntry(LinksOf(b)[1], futures[b].item.prefix)
            /\ results[j] = MergedEntry(LinksOf(a)[1], futures[a].item.prefix)


(***************************************************************************)
(* C18: uniform depth of a level.                                          *)
(***************************************************************************)

\* C18: level counts the iterations of the while loop that have begun, so
\* the running one is iteration k = level - 1.  All items of its frontier
\* have depth k; when the for loop is through, it has submitted either all
\* of them (k < max_depth) or none (k >= max_depth); fetches are submitted
\* in the iterations 0..max_depth-1 only, and the frontier that is next has
\* depth k + 1 throughout
C18_UniformLevelDepth ==
  /\ pc \in {"for", "collect"} =>
       /\ \A i \in DOMAIN current_level : current_level[i].depth = level - 1
       /\ future_map # {} => level <= max_depth
       /\ (pc = "collect" \/ idx > Len(current_level)) =>
            Cardinality(future_map) =
              IF level - 1 < max_depth THEN Len(current_level) ELSE 0
  /\ pc = "collect" =>
       \A i \in DOMAIN next_level : next_level[i].depth = level
  /\ pc = "while" =>
       \A i \in DOMAIN current_level : current_level[i].depth = level
  /\ \A id \in FutureIds : futures[id].item.depth < max_depth

\* the for loop has gone through a frontier of several directories of
\* depth >= 1 and has submitted none of them
C18_Witness ==
  /\ pc = "for"
  /\ idx > Len(current_level)
  /\ level >= 2
  /\ Len(current_level) >= 2
  /\ future_map = {}


(***************************************************************************)
(* C19: a failing root is silent.                                          *)
(***************************************************************************)

\* the fetch of the root URL fails with a fetch failure
RootFails == NormalizeRoot(url_arg) \in failing

\* the root is fetched and its listing has no links
RootIsEmpty ==
  /\ pages[NormalizeRoot(url_arg)] = <<>>
  /\ NormalizeRoot(url_arg) \notin failing \cup undecodable

\* what a crawl of a root without links shows: at most one fetch, that of
\* the root, no exception, no entry, and one fetch when it has returned
QuietCrawl ==
  /\ Len(futures) <= 1
  /\ \A id \in FutureIds : futures[id].item.url = NormalizeRoot(url_arg)
  /\ pc \notin {"raising", "raised"}
  /\ results = <<>>
  /\ pc = "done" => Len(futures) = 1

\* the crawls of a root whose fetch fails or whose listing has no links,
\* with the scheduling of FairSpec
RootFailInit == Init /\ (RootFails \/ RootIsEmpty)

RootFailSpec == RootFailInit /\ [][Next]_vars /\ Fairness

\* C19: with max_depth >= 1, a crawl whose root fetch fails goes as the
\* crawl of a root without links does, and it returns
C19_RootFailureSilent ==
  /\ []((max_depth >= 1 /\ (RootFails \/ RootIsEmpty)) => QuietCrawl)
  /\ (max_depth >= 1 /\ RootFails) => <>(pc = "done")

\* the root of a site with links failed, the crawl has returned
C19_Witness ==
  /\ pc = "done"
  /\ max_depth >= 1
  /\ RootFails
  /\ pages[root_url] # <<>>
  /\ Len(futures) = 1
  /\ results = <<>>

================================================================
